---- MODULE Spec2Model ----
(***************************************************************************)
(* Windowed firmware upload of the SMP client: imgChunker.run, sendChunk,  *)
(* tryUseWindow and freeWindow, with the transport as the environment.     *)
(*                                                                         *)
(* One dispatcher (run's loop) and one goroutine per chunk.  Every access  *)
(* to shared state (sem, the two atomics, the context, run's err variable) *)
(* is a step of its own; Send's return is merged with the first thing the  *)
(* worker does with the result, since the transport chooses when to return.*)
(***************************************************************************)
EXTENDS Integers, Sequences, FiniteSets, TLC

\* ---------------------------------------------------------------- bounds
MaxLen == 3
MaxChunkSize == 2
MaxWindows == 3
MaxTimeouts == 1

\* ------------------------------------------------------ program constants
windowCheckFreq == 50
maxTries == 3

VARIABLES
    data,                   \* imgChunker.data: the image, a sequence of bytes
    chunkSize,              \* imgChunker.chunkSize
    capSem,                 \* cap(c.sem) = maxWindows
    chunkOffsets,           \* imgChunker.chunkOffsets
    sem,                    \* len(c.sem): tokens in the channel
    currentWindows,         \* imgChunker.currentWindows
    currentAllowedWindows,  \* imgChunker.currentAllowedWindows
    ctxDone,                \* run's derived context is cancelled
    callerCancelled,        \* the caller's context is cancelled
    err,                    \* run's local err, shared with the goroutines
    pc,                     \* position of run
    idx,                    \* run's loop index i
    result,                 \* what run returned
    workers,                \* per chunk index: the goroutine's position and locals
    attempts,               \* per chunk index: results of its Send calls, in order
    cbLog,                  \* requests handed to the callback, in order
    uploaded,               \* the transport's buffer of received bytes
    cancelEarly,            \* the caller cancelled while a chunk was undelivered
    frozen,                 \* a worker has stored cap(c.sem) into currentAllowedWindows
    lateChunks,             \* chunks whose goroutine was started after cancellation
    allowedBeforeTimeout,   \* currentAllowedWindows when the first timeout arrived, 0 before
    seqNum,                 \* the package's seqNum counter, an atomic.Uint32
    seqLog,                 \* what the calls of NextSeqNum returned, in order
    frame,                  \* an SMPFrame handed to the codec or to ValidateFrame
    wire,                   \* what SMPFrameToFrame returned for frame
    decoded,                \* what FrameToSMPFrame returned for wire
    validated               \* what ValidateFrame returned for frame

vars == <<data, chunkSize, capSem, chunkOffsets, sem, currentWindows,
          currentAllowedWindows, ctxDone, callerCancelled, err, pc, idx,
          result, workers, attempts, cbLog, uploaded, cancelEarly, frozen,
          lateChunks, allowedBeforeTimeout, seqNum, seqLog, frame, wire,
          decoded, validated>>

\* ------------------------------------------------------------------ errors
\* An error is the chain of what it wraps, outermost first; nil is <<>>.
Nil == <<>>

Wrap(msg, e) == <<msg>> \o e

\* errors.Is(e, target)
ErrorsIs(e, target) == \E k \in 1..Len(e) : e[k] = target

DeadlineExceeded == <<"context.DeadlineExceeded">>
Canceled == <<"context.Canceled">>
ErrWaitTimeout == <<"wait timeout">>
GenericError == <<"error">>

\* BLETransport.waitForResp: the error returned when the wait's context ends
\* with ctxErr
WaitForResp(ctxErr) ==
    IF ErrorsIs(ctxErr, DeadlineExceeded[1]) THEN ErrWaitTimeout ELSE ctxErr

\* What Send may return as its error.
SendErrors == {DeadlineExceeded, Canceled, ErrWaitTimeout, GenericError}

\* A response frame, by what sendChunk asks of it: whether ValidateFrame accepts
\* it, whether its body decodes, and the err.group and err.rc of the decoded
\* body.
OkResponse == [valid |-> TRUE, decodes |-> TRUE, group |-> 0, rc |-> 0]
Responses ==
    {OkResponse,
     [valid |-> FALSE, decodes |-> TRUE, group |-> 0, rc |-> 0],
     [valid |-> TRUE, decodes |-> FALSE, group |-> 0, rc |-> 0],
     [valid |-> TRUE, decodes |-> TRUE, group |-> 1, rc |-> 1]}

\* SMPFrame{}, what a transport returns beside an error: an empty legacy frame
ZeroFrame == [valid |-> TRUE, decodes |-> FALSE, group |-> 0, rc |-> 0]

\* What one call of Send returned.
Timeout == [err |-> DeadlineExceeded, resp |-> ZeroFrame]
Answer(resp) == [err |-> Nil, resp |-> resp]

\* ------------------------------------------------------------------ chunks
Min(a, b) == IF a < b THEN a ELSE b

RECURSIVE OffsetsFrom(_, _, _)
OffsetsFrom(currOffset, dataLen, size) ==
    IF currOffset < dataLen
    THEN <<currOffset>> \o OffsetsFrom(currOffset + size, dataLen, size)
    ELSE <<>>

\* run, lines 77-83: the offsets of the chunks of an image of dataLen bytes
ComputeOffsets(dataLen, size) == OffsetsFrom(0, dataLen, size)

\* the slice end without the clamp to the image's length
NextPtrNoClamp(offset) == offset + chunkSize

\* sendChunk, line 153
NextPtr(offset) == Min(offset + chunkSize, Len(data))

\* sha256.Sum256(c.data), kept symbolic
Sum256(d) == <<"sha256", d>>

\* a request that has the image's fields at every offset
BuildWithImageFields(image, length, offset, sha, bytes, upgrade) ==
    [Image |-> image, Len |-> length, Off |-> offset, SHA |-> sha,
     Data |-> bytes, Upgrade |-> upgrade]

\* BuildFirmwareUploadRequest
BuildFirmwareUploadRequest(image, length, offset, sha, bytes, upgrade) ==
    IF offset = 0
    THEN [Image |-> image, Len |-> length, Off |-> offset, SHA |-> sha,
          Data |-> bytes, Upgrade |-> upgrade]
    ELSE [Image |-> 0, Len |-> 0, Off |-> offset, SHA |-> <<>>,
          Data |-> bytes, Upgrade |-> FALSE]

\* sendChunk, lines 145-155: the request of the chunk at offset
Request(offset) ==
    BuildFirmwareUploadRequest(0, Len(data), offset,
        IF offset = 0 THEN Sum256(data) ELSE <<>>,
        SubSeq(data, offset + 1, NextPtr(offset)), FALSE)

NumChunks == Len(chunkOffsets)
Chunks == 0..(NumChunks - 1)
OffsetOf(i) == chunkOffsets[i + 1]

\* the test transport: copy(uploaded[off:], data)
CopyAt(buf, off, bytes) ==
    [k \in DOMAIN buf |->
        IF k > off /\ k <= off + Len(bytes) THEN bytes[k - off] ELSE buf[k]]

\* ------------------------------------------------------------------ budget
\* a channel made one slot too large
HasSpaceOffByOne(s) == s <= capSem

\* a send on c.sem can proceed: the channel was made with capacity maxWindows
HasSpace(s) == s < capSem

\* growth that does not stop at the capacity
CanGrowNoCap(i, allowed) == i % windowCheckFreq = 0

\* run, line 122
\* a growth check that any chunk index passes
CanGrowAnyIndex(i, allowed) == allowed < capSem

CanGrow(i, allowed) == i % windowCheckFreq = 0 /\ allowed < capSem

\* sendChunk, line 179
\* a back-off that a lone worker takes too
MustBackOffAlone(tries, windows) == tries = 0

MustBackOff(tries, windows) == tries = 0 /\ windows > 1

\* a test of the first-error slot that is the wrong way round
RecordsWhenSet(iErr, e) == iErr # Nil /\ e # Nil

\* run, line 112
RecordsError(iErr, e) == iErr # Nil /\ e = Nil

\* sendChunk, line 176
IsTimeout(sendErr) == ErrorsIs(sendErr, DeadlineExceeded[1])

\* a response check that forgets err.rc
VerdictIgnoringRc(sendErr, resp) ==
    IF sendErr # Nil THEN Wrap("failed to send firmware upload frame", sendErr)
    ELSE IF ~resp.valid THEN <<"invalid firmware upload response frame">>
    ELSE IF ~resp.decodes THEN <<"failed to parse firmware upload response">>
    ELSE Nil

\* sendChunk, lines 188-206: the error a Send result that is no timeout ends
\* the chunk with, nil when the callback is to be called
Verdict(sendErr, resp) ==
    IF sendErr # Nil THEN Wrap("failed to send firmware upload frame", sendErr)
    ELSE IF ~resp.valid THEN <<"invalid firmware upload response frame">>
    ELSE IF ~resp.decodes THEN <<"failed to parse firmware upload response">>
    ELSE IF resp.rc # 0
         THEN <<"firmware upload command failed: group=" \o ToString(resp.group)
                    \o ", rc=" \o ToString(resp.rc)>>
    ELSE Nil

\* a pre-fill that leaves no slot free
FillsEverySlot == capSem

\* a run without the pre-fill
NoFillers == capSem - capSem

\* a pre-fill that leaves two slots free where there are two
LeavesTwoSlots == IF capSem > 1 THEN capSem - 2 ELSE 0

\* run, lines 86-88: the filler tokens that leave one slot free
InitialFillers == capSem - 1

\* a retry loop that does not look at the context
LoopIgnoresContext(tries) == tries < maxTries

\* sendChunk, line 165
LoopContinues(tries) == tries < maxTries /\ ~ctxDone

\* --------------------------------------------------------- sequence numbers
\* A uint32 is kept as two 16-bit halves, value = hi * 2^16 + lo.
Half == 2 ^ 16

\* atomic.Uint32.Add(1): the new value, modulo 2^32
Add1(c) ==
    IF c.lo < Half - 1 THEN [c EXCEPT !.lo = @ + 1]
    ELSE [hi |-> (c.hi + 1) % Half, lo |-> 0]

\* NextSeqNum: uint8(v % 0xff) of the value v that Add returned; 2^16 is
\* 257 * 255 + 1, so v % 255 = (hi + lo) % 255
SeqOf(c) == (c.hi + c.lo) % 255

\* a frame numbered by its chunk, not by the counter
SeqIsChunkIndex(c, i) == i % 255

\* CreateFrame in sendChunk's loop, line 171: SequenceNum: NextSeqNum()
FrameSeqNum(c, i) == SeqOf(c)

\* a goroutine without a frame
NoFrame == 0 - 1

\* ------------------------------------------------------------------- state
\* a goroutine not started: its position, sendChunk's result and tries, the
\* value the growth step loaded, the filler tokens it has put into sem, and
\* the sequence number of the frame it is sending
Idle == [pc |-> "idle", iErr |-> Nil, tries |-> 0, loaded |-> 0, fillers |-> 0,
         seq |-> NoFrame]

Image(len) == [k \in 1..len |-> k % 256]

\* the counter of a process that has made no frame yet, and no frame at hand
Fresh ==
    /\ seqNum = [hi |-> 0, lo |-> 0]
    /\ frame = <<>>

\* newChunker, lines 51-66: the chunker before run
Start(image, size, maxWindows) ==
    /\ data = image
    /\ chunkSize = size
    /\ capSem = maxWindows
    /\ chunkOffsets = <<>>
    /\ sem = 0
    /\ currentWindows = 0
    /\ currentAllowedWindows = 1
    /\ ctxDone = FALSE
    /\ callerCancelled = FALSE
    /\ err = Nil
    /\ pc = "start"
    /\ idx = 0
    /\ result = Nil
    /\ workers = <<>>
    /\ attempts = <<>>
    /\ cbLog = <<>>
    /\ uploaded = [k \in 1..Len(data) |-> 0]
    /\ cancelEarly = FALSE
    /\ frozen = FALSE
    /\ lateChunks = {}
    /\ allowedBeforeTimeout = 0
    /\ seqLog = <<>>
    /\ wire = <<>>
    /\ decoded = <<>>
    /\ validated = <<>>

Init ==
    \E len \in 0..MaxLen, size \in 1..MaxChunkSize, maxWindows \in 1..MaxWindows :
        Start(Image(len), size, maxWindows) /\ Fresh

Inputs == <<data, chunkSize, capSem>>
History == <<attempts, cbLog, uploaded, cancelEarly>>
Flags == <<frozen, lateChunks, allowedBeforeTimeout>>
Codec == <<seqLog, frame, wire, decoded, validated>>
Upload == <<Inputs, Flags, History, chunkOffsets, sem, currentWindows,
            currentAllowedWindows, ctxDone, callerCancelled, err, pc, idx,
            result, workers>>

At(i, where) == i \in DOMAIN workers /\ workers[i].pc = where
Goto(i, where) == workers' = [workers EXCEPT ![i].pc = where]

\* the last Send of chunk i returned no error and a response that is in order
Delivered(i) ==
    /\ Len(attempts[i]) > 0
    /\ attempts[i][Len(attempts[i])] = Answer(OkResponse)

\* --------------------------------------------------------------------- run
\* run, lines 77-88: chunk offsets, then cap-1 filler tokens
RunStart ==
    /\ pc = "start"
    /\ chunkOffsets' = ComputeOffsets(Len(data), chunkSize)
    /\ sem' = InitialFillers
    /\ workers' = [i \in 0..(Len(chunkOffsets') - 1) |-> Idle]
    /\ attempts' = [i \in 0..(Len(chunkOffsets') - 1) |-> <<>>]
    /\ pc' = IF Len(chunkOffsets') = 0 THEN "wait" ELSE "acquire"
    /\ UNCHANGED <<seqNum, Codec, Inputs, Flags, currentWindows, currentAllowedWindows, ctxDone,
                   callerCancelled, err, idx, result, cbLog, uploaded, cancelEarly>>

\* a tryUseWindow without the case for the context
NoCancelCase == FALSE

\* tryUseWindow, line 231: the receive from ctx.Done() is ready
CancelCaseReady == ctxDone

\* run, lines 92-94: tryUseWindow's select takes either ready case
DispatchAcquire ==
    /\ pc = "acquire"
    /\ \/ /\ HasSpace(sem)
          /\ sem' = sem + 1
          /\ pc' = "spawn"
       \/ /\ CancelCaseReady
          /\ sem' = sem
          /\ pc' = "wait"
    /\ UNCHANGED <<seqNum, Codec, Inputs, Flags, History, chunkOffsets, currentWindows,
                   currentAllowedWindows, ctxDone, callerCancelled, err, idx,
                   result, workers>>

\* run, lines 96-105: count the worker and start its goroutine
Spawn ==
    /\ pc = "spawn"
    /\ currentWindows' = currentWindows + 1
    /\ Goto(idx, "loop")
    /\ idx' = idx + 1
    /\ pc' = IF idx + 1 < NumChunks THEN "acquire" ELSE "wait"
    /\ lateChunks' = IF ctxDone THEN lateChunks \cup {idx} ELSE lateChunks
    /\ UNCHANGED <<seqNum, Codec, Inputs, frozen, allowedBeforeTimeout, History, chunkOffsets, sem, currentAllowedWindows,
                   ctxDone, callerCancelled, err, result>>

\* a run that does not wait for its goroutines
WgZeroNoWait == TRUE

\* run, lines 96, 109 and 139: the wait group's counter is zero; a goroutine
\* that was started has called wg.Done
WgZero == \A i \in DOMAIN workers : workers[i].pc \in {"idle", "done"}

\* run, lines 139-141: wg.Wait, then return err
WaitReturn ==
    /\ pc = "wait"
    /\ WgZero
    /\ result' = err
    /\ pc' = "done"
    /\ UNCHANGED <<seqNum, Codec, Inputs, Flags, History, chunkOffsets, sem, currentWindows,
                   currentAllowedWindows, ctxDone, callerCancelled, err, idx,
                   workers>>

\* ---------------------------------------------------------------- sendChunk
\* sendChunk, line 219
TriesExhausted ==
    <<"tried to send for " \o ToString(maxTries) \o " tries, still failed">>

\* an end of sendChunk that does not look at the context
AfterLoopSkipsContext == TriesExhausted

\* sendChunk, lines 215-219: what sendChunk returns when its loop has ended
AfterLoopError ==
    IF ctxDone THEN Wrap("context error", Canceled) ELSE TriesExhausted

\* sendChunk, lines 165-171 and 215-219: the loop condition, then the frame of
\* this attempt with its sequence number, or what follows the loop
LoopHead(i) ==
    /\ At(i, "loop")
    /\ seqNum' = IF LoopContinues(workers[i].tries) THEN Add1(seqNum) ELSE seqNum
    /\ workers' = [workers EXCEPT ![i] =
          IF LoopContinues(@.tries)
          THEN [@ EXCEPT !.pc = "send", !.seq = FrameSeqNum(seqNum', i)]
          ELSE [@ EXCEPT !.pc = "ret",
                         !.iErr = AfterLoopError]]
    /\ UNCHANGED <<Codec, Inputs, Flags, History, chunkOffsets, sem, currentWindows,
                   currentAllowedWindows, ctxDone, callerCancelled, err, pc, idx,
                   result>>

\* a retry loop that counts a timeout as a try
TriesCountTimeout(tries) == tries + 1

\* sendChunk, line 187: `continue` leaves tries as it is
TriesAfterTimeout(tries) == tries

\* sendChunk, lines 174-187: Send returns a timeout, to a chunk that has had
\* fewer than limit results
SendTimeoutUpTo(i, limit) ==
    /\ At(i, "send")
    /\ Len(attempts[i]) < limit
    /\ IsTimeout(Timeout.err)
    /\ attempts' = [attempts EXCEPT ![i] = Append(@, Timeout)]
    /\ workers' = [workers EXCEPT
          ![i].pc = IF MustBackOff(workers[i].tries, currentWindows)
                    THEN "store" ELSE "loop",
          ![i].tries = TriesAfterTimeout(@),
          ![i].seq = NoFrame]
    /\ allowedBeforeTimeout' = IF allowedBeforeTimeout = 0
                               THEN currentAllowedWindows
                               ELSE allowedBeforeTimeout
    /\ UNCHANGED <<seqNum, Codec, Inputs, frozen, lateChunks, chunkOffsets, sem, currentWindows,
                   currentAllowedWindows, ctxDone, callerCancelled, err, pc, idx,
                   result, cbLog, uploaded, cancelEarly>>

SendTimeout(i) == SendTimeoutUpTo(i, MaxTimeouts)

\* sendChunk, lines 188-206: Send returns an error that is no timeout, or a
\* response that is refused
SendFails(i) ==
    /\ At(i, "send")
    /\ \E e \in SendErrors \cup {Nil}, resp \in Responses :
          /\ ~IsTimeout(e)
          /\ e # Nil => resp = ZeroFrame
          /\ Verdict(e, resp) # Nil
          /\ attempts' = [attempts EXCEPT ![i] =
                Append(@, [err |-> e, resp |-> resp])]
          /\ workers' = [workers EXCEPT ![i].pc = "ret",
                                        ![i].seq = NoFrame,
                                        ![i].iErr = Verdict(e, resp)]
    /\ UNCHANGED <<seqNum, Codec, Inputs, Flags, chunkOffsets, sem, currentWindows,
                   currentAllowedWindows, ctxDone, callerCancelled, err, pc, idx,
                   result, cbLog, uploaded, cancelEarly>>

\* sendChunk, lines 174-208: the transport stores the bytes and answers; the
\* response is accepted and the callback is entered
SendOk(i) ==
    /\ At(i, "send")
    /\ \E resp \in Responses :
          /\ Verdict(Nil, resp) = Nil
          /\ attempts' = [attempts EXCEPT ![i] = Append(@, Answer(resp))]
    /\ uploaded' = CopyAt(uploaded, Request(OffsetOf(i)).Off,
                          Request(OffsetOf(i)).Data)
    /\ workers' = [workers EXCEPT ![i].pc = "cb", ![i].seq = NoFrame]
    /\ UNCHANGED <<seqNum, Codec, Inputs, Flags, chunkOffsets, sem, currentWindows,
                   currentAllowedWindows, ctxDone, callerCancelled, err, pc, idx,
                   result, cbLog, cancelEarly>>

\* sendChunk, lines 208-212: the callback returns, sendChunk returns nil
Callback(i) ==
    /\ At(i, "cb")
    /\ cbLog' = Append(cbLog, Request(OffsetOf(i)))
    /\ workers' = [workers EXCEPT ![i].pc = "ret", ![i].iErr = Nil]
    /\ UNCHANGED <<seqNum, Codec, Inputs, Flags, chunkOffsets, sem, currentWindows,
                   currentAllowedWindows, ctxDone, callerCancelled, err, pc, idx,
                   result, attempts, uploaded, cancelEarly>>

\* a back-off that leaves the allowed windows as they are
FreezeKeepsValue == currentAllowedWindows

\* a back-off that halves the allowed windows
FreezeHalves == (currentAllowedWindows + 1) \div 2

\* sendChunk, line 183: the value stored to stop the growth
FreezeValue == capSem

\* sendChunk, line 183: freeze growth
StoreFreeze(i) ==
    /\ At(i, "store")
    /\ currentAllowedWindows' = FreezeValue
    /\ frozen' = TRUE
    /\ Goto(i, "backoff")
    /\ UNCHANGED <<seqNum, Codec, Inputs, lateChunks, allowedBeforeTimeout, History, chunkOffsets, sem, currentWindows, ctxDone,
                   callerCancelled, err, pc, idx, result>>

\* sendChunk, lines 185-187: tryUseWindow, its result unused, then continue
Backoff(i) ==
    /\ At(i, "backoff")
    /\ \/ /\ HasSpace(sem)
          /\ sem' = sem + 1
          /\ workers' = [workers EXCEPT ![i].pc = "loop", ![i].fillers = @ + 1]
       \/ /\ CancelCaseReady
          /\ sem' = sem
          /\ Goto(i, "loop")
    /\ UNCHANGED <<seqNum, Codec, Inputs, Flags, History, chunkOffsets, currentWindows,
                   currentAllowedWindows, ctxDone, callerCancelled, err, pc, idx,
                   result>>

\* ------------------------------------------------- the goroutine of run
\* run, line 112: the unsynchronised read of err
CheckErr(i) ==
    /\ At(i, "ret")
    /\ Goto(i, IF RecordsError(workers[i].iErr, err) THEN "cancel" ELSE "grow")
    /\ UNCHANGED <<seqNum, Codec, Inputs, Flags, History, chunkOffsets, sem, currentWindows,
                   currentAllowedWindows, ctxDone, callerCancelled, err, pc, idx,
                   result>>

\* run, line 113
Cancel(i) ==
    /\ At(i, "cancel")
    /\ ctxDone' = TRUE
    /\ Goto(i, "write")
    /\ UNCHANGED <<seqNum, Codec, Inputs, Flags, History, chunkOffsets, sem, currentWindows,
                   currentAllowedWindows, callerCancelled, err, pc, idx, result>>

\* a cleanup that is skipped by the early return
ReturnWithoutDeferred == "done"

\* run, lines 106-110 and 118: the return after a recorded error runs the
\* deferred function
AfterRecordedError == "release"

\* run, line 116: the unsynchronised write of err
WriteErr(i) ==
    /\ At(i, "write")
    /\ err' = workers[i].iErr
    /\ Goto(i, AfterRecordedError)
    /\ UNCHANGED <<seqNum, Codec, Inputs, Flags, History, chunkOffsets, sem, currentWindows,
                   currentAllowedWindows, ctxDone, callerCancelled, pc, idx,
                   result>>

\* run, line 122
GrowLoad(i) ==
    /\ At(i, "grow")
    /\ workers' = [workers EXCEPT
          ![i].loaded = currentAllowedWindows,
          ![i].pc = IF CanGrow(i, currentAllowedWindows) THEN "cas" ELSE "release"]
    /\ UNCHANGED <<seqNum, Codec, Inputs, Flags, History, chunkOffsets, sem, currentWindows,
                   currentAllowedWindows, ctxDone, callerCancelled, err, pc, idx,
                   result>>

\* a growth step that tries again after a lost compare-and-swap
RetriesGrowth == "grow"

\* run, lines 132-134: a lost compare-and-swap is logged, and the deferred
\* function follows
AfterFailedCAS == "release"

\* run, lines 125-134
GrowCAS(i) ==
    /\ At(i, "cas")
    /\ IF currentAllowedWindows = workers[i].loaded
       THEN /\ currentAllowedWindows' = workers[i].loaded + 1
            /\ Goto(i, "growfree")
       ELSE /\ currentAllowedWindows' = currentAllowedWindows
            /\ Goto(i, AfterFailedCAS)
    /\ UNCHANGED <<seqNum, Codec, Inputs, Flags, History, chunkOffsets, sem, currentWindows, ctxDone,
                   callerCancelled, err, pc, idx, result>>

\* run, line 128: freeWindow blocks on an empty channel
GrowFree(i) ==
    /\ At(i, "growfree")
    /\ sem > 0
    /\ sem' = sem - 1
    /\ Goto(i, "release")
    /\ UNCHANGED <<seqNum, Codec, Inputs, Flags, History, chunkOffsets, currentWindows,
                   currentAllowedWindows, ctxDone, callerCancelled, err, pc, idx,
                   result>>

\* run, line 107
Release(i) ==
    /\ At(i, "release")
    /\ currentWindows' = currentWindows - 1
    /\ Goto(i, "free")
    /\ UNCHANGED <<seqNum, Codec, Inputs, Flags, History, chunkOffsets, sem, currentAllowedWindows,
                   ctxDone, callerCancelled, err, pc, idx, result>>

\* run, lines 108-109: freeWindow, wg.Done
FreeWindow(i) ==
    /\ At(i, "free")
    /\ sem > 0
    /\ sem' = sem - 1
    /\ Goto(i, "done")
    /\ UNCHANGED <<seqNum, Codec, Inputs, Flags, History, chunkOffsets, currentWindows,
                   currentAllowedWindows, ctxDone, callerCancelled, err, pc, idx,
                   result>>

\* ------------------------------------------------------------- environment
\* The caller cancels the context it passed to UploadImageWithWindows, at any
\* time during the run (run reads the context first in its loop, so a context
\* cancelled before the call acts as one cancelled before the first acquire).
CallerCancel ==
    /\ pc \notin {"start", "done"}
    /\ ~callerCancelled
    /\ callerCancelled' = TRUE
    /\ ctxDone' = TRUE
    /\ cancelEarly' = \E i \in DOMAIN attempts : ~Delivered(i)
    /\ UNCHANGED <<seqNum, Codec, Inputs, Flags, chunkOffsets, sem, currentWindows,
                   currentAllowedWindows, err, pc, idx, result, workers,
                   attempts, cbLog, uploaded>>

\* every step of the upload itself, the caller's cancellation left out
Program ==
    \/ RunStart \/ DispatchAcquire \/ Spawn \/ WaitReturn
    \/ \E i \in DOMAIN workers :
          \/ LoopHead(i) \/ SendTimeout(i) \/ SendFails(i) \/ SendOk(i)
          \/ Callback(i) \/ StoreFreeze(i) \/ Backoff(i) \/ CheckErr(i)
          \/ Cancel(i) \/ WriteErr(i) \/ GrowLoad(i) \/ GrowCAS(i)
          \/ GrowFree(i) \/ Release(i) \/ FreeWindow(i)

Next ==
    \/ RunStart
    \/ DispatchAcquire
    \/ Spawn
    \/ WaitReturn
    \/ \E i \in DOMAIN workers : LoopHead(i)
    \/ \E i \in DOMAIN workers : SendTimeout(i)
    \/ \E i \in DOMAIN workers : SendFails(i)
    \/ \E i \in DOMAIN workers : SendOk(i)
    \/ \E i \in DOMAIN workers : Callback(i)
    \/ \E i \in DOMAIN workers : StoreFreeze(i)
    \/ \E i \in DOMAIN workers : Backoff(i)
    \/ \E i \in DOMAIN workers : CheckErr(i)
    \/ \E i \in DOMAIN workers : Cancel(i)
    \/ \E i \in DOMAIN workers : WriteErr(i)
    \/ \E i \in DOMAIN workers : GrowLoad(i)
    \/ \E i \in DOMAIN workers : GrowCAS(i)
    \/ \E i \in DOMAIN workers : GrowFree(i)
    \/ \E i \in DOMAIN workers : Release(i)
    \/ \E i \in DOMAIN workers : FreeWindow(i)
    \/ CallerCancel

Spec == Init /\ [][Next]_vars

\* ------------------------------------------------------------------ claims
Returned == pc = "done"

InFlight == {i \in DOMAIN workers : workers[i].pc \notin {"idle", "done"}}

\* the callbacks made for chunk i
CallbacksOf(i) == {k \in 1..Len(cbLog) : cbLog[k].Off = OffsetOf(i)}

RECURSIVE BytesOf(_)
BytesOf(log) == IF log = <<>> THEN 0 ELSE Len(Head(log).Data) + BytesOf(Tail(log))

\* the test's uploadedSize: the bytes the callbacks counted
CallbackBytes == BytesOf(cbLog)

\* C1: when run returns nil, every chunk was sent successfully and the callback
\* was called exactly once for each chunk, so the callbacks counted exactly the
\* image's bytes; also when the caller cancels the context part-way.
C1_NilMeansAllDelivered ==
    (Returned /\ result = Nil) =>
        /\ \A i \in Chunks : Delivered(i) /\ Cardinality(CallbacksOf(i)) = 1
        /\ Len(cbLog) = NumChunks
        /\ CallbackBytes = Len(data)

\* C2: after a run that returned nil, the bytes the transport received, each
\* request's data put at the request's offset, are the image.
C2_NilMeansReconstructed ==
    (Returned /\ result = Nil) => uploaded = data

\* C3: the chunk offsets are exactly 0, C, 2C, ... below L, and the ranges
\* [off, min(off+C, L)) that sendChunk slices are non-empty, lie in [0, L),
\* and every byte position of the image is in exactly one of them.
C3_OffsetsPartitionImage ==
    pc # "start" =>
        /\ \A k \in 1..NumChunks :
              /\ chunkOffsets[k] = (k - 1) * chunkSize
              /\ chunkOffsets[k] < Len(data)
        /\ NumChunks * chunkSize >= Len(data)
        /\ \A i \in Chunks :
              /\ OffsetOf(i) < NextPtr(OffsetOf(i))
              /\ NextPtr(OffsetOf(i)) <= Len(data)
              /\ Len(Request(OffsetOf(i)).Data) = NextPtr(OffsetOf(i)) - OffsetOf(i)
        /\ \A p \in 0..(Len(data) - 1) :
              Cardinality({i \in Chunks :
                  OffsetOf(i) <= p /\ p < NextPtr(OffsetOf(i))}) = 1

\* an image of several chunks, the last one short, has been split
C3_Witness ==
    /\ pc # "start"
    /\ NumChunks >= 2
    /\ Len(data) % chunkSize # 0

\* exactly one chunk's Send failed, with the error e that is no timeout and no
\* context error; every other Send succeeded
OnlyFailure(k, e) ==
    /\ attempts[k] = <<[err |-> e, resp |-> ZeroFrame]>>
    /\ \A j \in Chunks \ {k} : attempts[j] \in {<<>>, <<Answer(OkResponse)>>}

\* C4: when exactly one chunk's Send fails with an error E that is no timeout
\* and every other Send succeeds, run returns an error that wraps E and is no
\* context error.
C4_SingleFailureReturned ==
    \A k \in Chunks : \A e \in {GenericError, ErrWaitTimeout} :
        (Returned /\ ~callerCancelled /\ OnlyFailure(k, e)) =>
            /\ result # Nil
            /\ ErrorsIs(result, e[1])
            /\ ~ErrorsIs(result, Canceled[1])

\* C5: the first-error slot is assigned at most once: once err is not nil, no
\* step changes it.
C5_ErrAssignedOnce == [][err # Nil => err' = err]_vars

\* C6: the callback is entered or has been called for a chunk only when the
\* chunk's last Send returned no error and a response that ValidateFrame
\* accepts, that decodes and whose err.rc is 0; when every Send returned an
\* error that is no timeout, no callback is called.
C6_CallbackOnlyAfterSuccess ==
    /\ \A i \in DOMAIN workers : At(i, "cb") => Delivered(i)
    /\ \A k \in 1..Len(cbLog) :
          \E i \in Chunks : cbLog[k] = Request(OffsetOf(i)) /\ Delivered(i)
    /\ (\A i \in DOMAIN attempts : \A n \in 1..Len(attempts[i]) :
           attempts[i][n].err # Nil /\ ~IsTimeout(attempts[i][n].err))
       => cbLog = <<>>

\* one chunk's callback was called while another chunk's response carried a
\* non-zero rc
C6_Witness ==
    /\ Len(cbLog) >= 1
    /\ \E i \in DOMAIN attempts :
          /\ attempts[i] # <<>>
          /\ attempts[i][Len(attempts[i])].err = Nil
          /\ attempts[i][Len(attempts[i])].resp.rc # 0
          /\ workers[i].pc = "done"

\* no worker ended on an error other than the context's
NoOtherTerminalError ==
    \A i \in DOMAIN attempts : \A n \in 1..Len(attempts[i]) :
        \/ attempts[i][n] \in {Timeout, Answer(OkResponse)}
        \/ attempts[i][n].err = Canceled

\* C7: when the caller cancels before every chunk is delivered and no worker
\* hit another terminal error, run returns an error that wraps the context's
\* error, and fewer callbacks were called than there are chunks.
C7_CallerCancelReturned ==
    (Returned /\ cancelEarly /\ NoOtherTerminalError) =>
        /\ result # Nil
        /\ ErrorsIs(result, Canceled[1])
        /\ Len(cbLog) < NumChunks

\* C8: with maxWindows = 1 at most one chunk is in flight, the Send of a chunk
\* starts only after the workers of all earlier chunks have finished, and the
\* callbacks are called in strictly ascending order of offset.
C8_OneWindowSequential ==
    capSem = 1 =>
        /\ Cardinality(InFlight) <= 1
        /\ \A i \in DOMAIN workers :
              workers[i].pc \in {"send", "cb"} =>
                  \A j \in 0..(i - 1) : workers[j].pc = "done"
        /\ \A k \in 1..(Len(cbLog) - 1) : cbLog[k].Off < cbLog[k + 1].Off

\* with one window, two chunks were delivered and a third is being sent
C8_Witness ==
    /\ capSem = 1
    /\ Len(cbLog) >= 2
    /\ \E i \in DOMAIN workers : At(i, "send")

\* C9: in every state 0 <= currentWindows <= currentAllowedWindows <=
\* maxWindows, and no more than maxWindows workers are in flight.
C9_WindowsWithinBudget ==
    /\ 0 <= currentWindows
    /\ currentWindows <= currentAllowedWindows
    /\ currentAllowedWindows <= capSem
    /\ Cardinality(InFlight) <= capSem

\* growth has raised the allowed windows to the capacity and as many workers
\* as the capacity are counted
C9_Witness ==
    /\ capSem >= 2
    /\ currentAllowedWindows = capSem
    /\ currentWindows = capSem
    /\ Cardinality(InFlight) = capSem

\* the first Send of every chunk sent so far timed out, every later one succeeded
TimeoutOnceThenSuccess ==
    \A i \in DOMAIN attempts :
        attempts[i] \in {<<>>, <<Timeout>>, <<Timeout, Answer(OkResponse)>>}

\* C10: when the first Send of every chunk times out, every later Send
\* succeeds and the caller never cancels, run returns nil with all chunks
\* delivered: it has always a step to take until it returns, and it returns
\* nil with every chunk delivered.
C10_TimeoutOnceCompletes ==
    (TimeoutOnceThenSuccess /\ ~callerCancelled) =>
        /\ ~Returned => ENABLED Program
        /\ Returned => result = Nil /\ \A i \in Chunks : Delivered(i)

\* C11: run returns only after every worker it dispatched has finished: once
\* run has returned no worker is at any position of its goroutine (no Send in
\* progress, none about to start), and no later step records a Send result or
\* a callback.
C11_ReturnAfterWorkers ==
    /\ [](Returned => \A i \in DOMAIN workers : workers[i].pc \in {"idle", "done"})
    /\ [][Returned => (attempts' = attempts /\ cbLog' = cbLog /\ workers' = workers)]_vars

\* run has returned after two workers ran side by side and both called back
C11_Witness ==
    /\ Returned
    /\ capSem >= 2
    /\ Len(cbLog) >= 2
    /\ Cardinality({i \in DOMAIN workers : workers[i].pc = "done"}) >= 2

\* C12: when run returns, currentWindows is 0.
C12_NoWindowsAtReturn == Returned => currentWindows = 0

\* run has returned an error after three workers were counted
C12_Witness ==
    /\ Returned
    /\ currentWindows = 0
    /\ result # Nil
    /\ idx >= 3

\* C13: after every run that returned nil, all token slots are free, len(sem)
\* is 0, for every image length, chunk size and maxWindows >= 1 and whether or
\* not timeouts occurred.
C13_SemEmptyAfterSuccess == (Returned /\ result = Nil) => sem = 0

\* C13, amended: after a run that returned nil in which no worker backed off
\* after a timeout, the tokens left in sem are the fillers of the windows not
\* yet allowed: len(sem) = maxWindows - currentAllowedWindows, which is 0 only
\* when growth has reached maxWindows.
C13_OnlyFillersRemain ==
    (Returned /\ result = Nil /\ ~frozen) => sem = capSem - currentAllowedWindows

\* a run of two windows returned nil with sem empty, after a Send had timed out
C13_Witness ==
    /\ Returned
    /\ result = Nil
    /\ ~frozen
    /\ capSem >= 2
    /\ sem = 0
    /\ \E i \in DOMAIN attempts : Len(attempts[i]) >= 2

\* the chunks that had a Send time out
TimedOut == {i \in DOMAIN attempts : \E n \in 1..Len(attempts[i]) : attempts[i][n] = Timeout}

\* C15: when a timeout is injected on exactly one chunk, from that timeout
\* until the transfer ends currentAllowedWindows never exceeds the value it had
\* immediately before the timeout.
C15_AllowedNotAbovePreTimeout ==
    Cardinality(TimedOut) = 1 => currentAllowedWindows <= allowedBeforeTimeout

\* C15, amended: currentAllowedWindows never falls below the value it had
\* before the first timeout, and once a worker has backed off after a timeout
\* (more than one window was counted) it equals maxWindows until the transfer
\* ends, which may exceed the value before the timeout.
C15_FrozenAtCapacity ==
    /\ allowedBeforeTimeout <= currentAllowedWindows
    /\ frozen => currentAllowedWindows = capSem

\* a back-off has raised the allowed windows from 2 to a capacity of 3 and the
\* run has returned
C15_Witness ==
    /\ Returned
    /\ frozen
    /\ Cardinality(TimedOut) = 1
    /\ allowedBeforeTimeout = 2
    /\ currentAllowedWindows = 3

\* C16: a chunk whose goroutine is started after the shared context has been
\* cancelled never has a Send issued for it and never has its callback called;
\* its sendChunk returns a context error.
C16_LateWorkerSendsNothing ==
    \A i \in lateChunks :
        /\ attempts[i] = <<>>
        /\ workers[i].pc \notin {"send", "cb"}
        /\ CallbacksOf(i) = {}
        /\ workers[i].pc # "loop" => workers[i].iErr = Wrap("context error", Canceled)

\* a goroutine started after the cancellation has finished and run has returned
C16_Witness ==
    /\ Returned
    /\ \E i \in lateChunks : workers[i].pc = "done"

\* C17: once the shared context is cancelled, the dispatch loop starts no
\* further worker: a tryUseWindow of the loop that is decided while the
\* context is cancelled does not return true.
C17_NoDispatchAfterCancel ==
    [][(ctxDone /\ pc = "acquire") => pc' # "spawn"]_vars

\* ---------------------------------------------------------- a long transfer
\* The growth step of run is taken by the chunks whose index is a multiple of
\* windowCheckFreq, so only a transfer of more than windowCheckFreq chunks has
\* a second one.  LongSpec is such a transfer, of one-byte chunks as in
\* TestImgChunkerCorrectness, with as many windows as it has growth steps to
\* reach.  It holds the behaviours in which nothing fails and nobody cancels,
\* only the chunks windowCheckFreq and windowCheckFreq + 1 may time out, and
\* the loop of run takes a window only when the goroutines still running are
\* those of growth-eligible chunks waiting for the transport: every behaviour
\* of LongSpec is one of the upload, so what it reaches the upload reaches.
LongLen == 2 * windowCheckFreq + 1

\* run, line 122: the indices below n that may grow the allowed windows
Eligible(n) == {i \in 0..(n - 1) : i % windowCheckFreq = 0}

LongWindows == Cardinality(Eligible(LongLen)) + 1

InitLong == Start(Image(LongLen), 1, LongWindows) /\ Fresh

\* a growth-eligible chunk after the first
Slow(i) == i > 0 /\ i % windowCheckFreq = 0

\* how many Send results of chunk i may be timeouts
LongTimeoutLimit(i) ==
    IF i = windowCheckFreq + 1 THEN MaxTimeouts + 1
    ELSE IF i = windowCheckFreq THEN MaxTimeouts
    ELSE 0

LongDispatchAcquire ==
    /\ DispatchAcquire
    /\ \A i \in InFlight : Slow(i) /\ At(i, "send")

LongSendTimeout(i) == SendTimeoutUpTo(i, LongTimeoutLimit(i))

LongNext ==
    \/ RunStart
    \/ LongDispatchAcquire
    \/ Spawn
    \/ WaitReturn
    \/ \E i \in DOMAIN workers : LoopHead(i)
    \/ \E i \in DOMAIN workers : LongSendTimeout(i)
    \/ \E i \in DOMAIN workers : SendOk(i)
    \/ \E i \in DOMAIN workers : Callback(i)
    \/ \E i \in DOMAIN workers : StoreFreeze(i)
    \/ \E i \in DOMAIN workers : Backoff(i)
    \/ \E i \in DOMAIN workers : CheckErr(i)
    \/ \E i \in DOMAIN workers : GrowLoad(i)
    \/ \E i \in DOMAIN workers : GrowCAS(i)
    \/ \E i \in DOMAIN workers : GrowFree(i)
    \/ \E i \in DOMAIN workers : Release(i)
    \/ \E i \in DOMAIN workers : FreeWindow(i)

LongSpec == InitLong /\ [][LongNext]_vars

\* C14: after a successful run without timeouts over N chunks of which at
\* least maxWindows - 1 have a growth-eligible index (a multiple of 50 below
\* N), currentAllowedWindows equals maxWindows, in every interleaving.
C14_GrowthReachesCapacity ==
    (/\ Returned
     /\ result = Nil
     /\ \A i \in Chunks : Delivered(i)
     /\ TimedOut = {}
     /\ Cardinality(Eligible(NumChunks)) >= capSem - 1)
    => currentAllowedWindows = capSem

\* C18: with the context never cancelled and a transport that only answers or
\* times out, the transfer never reaches a state in which the dispatch loop
\* and every running worker are blocked in tryUseWindow on a full sem.
C18_NoWindowDeadlock ==
    ~(/\ ~ctxDone
      /\ pc = "acquire"
      /\ ~HasSpace(sem)
      /\ InFlight # {}
      /\ \A i \in InFlight : At(i, "backoff"))

\* C19: over all the timeouts of one chunk its worker consumes at most one
\* budget slot: it puts a filler token into sem for the chunk's first timeout
\* only.
C19_AtMostOneFiller == \A i \in DOMAIN workers : workers[i].fillers <= 1

\* C20: after a timeout-triggered freeze (a worker has stored maxWindows into
\* currentAllowedWindows) no growth step removes a filler token from sem.
C20_NoGrowthAfterFreeze ==
    [][frozen => \A i \in DOMAIN workers :
                    ~(At(i, "growfree") /\ workers'[i].pc = "release")]_vars

\* ------------------------------------------------------- one window, retries
\* RetrySpec is the upload with maxWindows = 1 and a transport that lets a
\* chunk's Send time out more often than maxTries.  With one window
\* currentWindows never exceeds 1 and currentAllowedWindows is at the
\* capacity from the start, so the back-off and the growth steps have no
\* state to start from and are left out of RetryNext.
InitRetry ==
    \E len \in 0..MaxLen, size \in 1..MaxChunkSize :
        Start(Image(len), size, 1) /\ Fresh

RetrySendTimeout(i) == SendTimeoutUpTo(i, maxTries + 1)

RetryNext ==
    \/ RunStart
    \/ DispatchAcquire
    \/ Spawn
    \/ WaitReturn
    \/ \E i \in DOMAIN workers : LoopHead(i)
    \/ \E i \in DOMAIN workers : RetrySendTimeout(i)
    \/ \E i \in DOMAIN workers : SendFails(i)
    \/ \E i \in DOMAIN workers : SendOk(i)
    \/ \E i \in DOMAIN workers : Callback(i)
    \/ \E i \in DOMAIN workers : CheckErr(i)
    \/ \E i \in DOMAIN workers : Cancel(i)
    \/ \E i \in DOMAIN workers : WriteErr(i)
    \/ \E i \in DOMAIN workers : GrowLoad(i)
    \/ \E i \in DOMAIN workers : Release(i)
    \/ \E i \in DOMAIN workers : FreeWindow(i)
    \/ CallerCancel

RetrySpec == InitRetry /\ [][RetryNext]_vars

\* the Sends of chunk i timed out, any number of times, and then one succeeded
TimeoutsThenOk(i) ==
    /\ attempts[i] # <<>>
    /\ attempts[i][Len(attempts[i])] = Answer(OkResponse)
    /\ \A n \in 1..(Len(attempts[i]) - 1) : attempts[i][n] = Timeout

\* C21: a timeout does not advance the chunk's attempt counter: with one
\* window and the context never cancelled, a chunk whose Send times out k
\* times and then succeeds is delivered, for every k, also beyond maxTries;
\* no chunk ends with the error of exhausted tries, a worker whose Send timed
\* out is sent again, and a run of such chunks returns nil.
C21_TimeoutsNotCounted ==
    ~callerCancelled =>
        /\ \A i \in DOMAIN workers :
              /\ workers[i].tries = 0
              /\ workers[i].iErr # TriesExhausted
              /\ (At(i, "loop") /\ ~ctxDone) => ENABLED LoopHead(i)
              /\ TimeoutsThenOk(i) =>
                    \/ At(i, "cb")
                    \/ workers[i].iErr = Nil /\ Cardinality(CallbacksOf(i)) = 1
        /\ (Returned /\ \A i \in Chunks : TimeoutsThenOk(i)) => result = Nil

\* run has returned nil after a chunk's Send timed out more often than maxTries
C21_Witness ==
    /\ Returned
    /\ result = Nil
    /\ ~callerCancelled
    /\ NumChunks >= 2
    /\ \A i \in Chunks : TimeoutsThenOk(i)
    /\ \E i \in Chunks : Len(attempts[i]) > maxTries

\* the positions of a worker that may still send or call back
MaySend == {"loop", "send", "store", "backoff", "cb"}

\* C22: when Send returns an error that is no timeout, the worker issues no
\* further Send for the chunk, does not call the callback, returns an error
\* that wraps the transport's error, and run returns an error that is not nil.
C22_SendErrorTerminal ==
    \A i \in DOMAIN attempts : \A n \in 1..Len(attempts[i]) :
        (attempts[i][n].err # Nil /\ ~IsTimeout(attempts[i][n].err)) =>
            /\ n = Len(attempts[i])
            /\ workers[i].pc \notin MaySend
            /\ CallbacksOf(i) = {}
            /\ workers[i].iErr # Nil
            /\ ErrorsIs(workers[i].iErr, attempts[i][n].err[1])
            /\ Returned => result # Nil

\* run has returned after one chunk was delivered and the Send of another
\* returned an error that is no timeout
C22_Witness ==
    /\ Returned
    /\ ~callerCancelled
    /\ \E i, j \in Chunks :
          /\ Delivered(i)
          /\ attempts[j] = <<[err |-> GenericError, resp |-> ZeroFrame]>>

\* the response of chunk k's only Send was refused and every other Send succeeded
OnlyRefused(k, resp) ==
    /\ attempts[k] = <<Answer(resp)>>
    /\ \A j \in Chunks \ {k} : attempts[j] \in {<<>>, <<Answer(OkResponse)>>}

\* C23: a response that ValidateFrame refuses, whose body does not decode or
\* whose err.rc is not 0 ends its chunk: no retry, no callback, and run
\* returns an error that is not nil; when the response with the non-zero rc is
\* the transfer's only failure, the error run returns reports its group and rc.
C23_BadResponseTerminal ==
    /\ \A i \in DOMAIN attempts : \A n \in 1..Len(attempts[i]) :
          (attempts[i][n].err = Nil /\ Verdict(Nil, attempts[i][n].resp) # Nil) =>
              /\ n = Len(attempts[i])
              /\ workers[i].pc \notin MaySend
              /\ CallbacksOf(i) = {}
              /\ workers[i].iErr = Verdict(Nil, attempts[i][n].resp)
              /\ Returned => result # Nil
    /\ \A k \in Chunks : \A resp \in Responses :
          (/\ Returned
           /\ ~callerCancelled
           /\ resp.valid /\ resp.decodes /\ resp.rc # 0
           /\ OnlyRefused(k, resp))
          => result = <<"firmware upload command failed: group="
                            \o ToString(resp.group) \o ", rc=" \o ToString(resp.rc)>>

\* the errors by which a transport says that no response came within the
\* deadline: the context's, and what BLETransport.waitForResp makes of it
TimeoutSignals == {DeadlineExceeded, WaitForResp(DeadlineExceeded)}

\* C24: every error by which a transport signals that no response came within
\* the deadline, context.DeadlineExceeded as well as ErrWaitTimeout, is taken
\* by the chunk's worker as a timeout and retried: it does not end the chunk
\* with an error.
C24_TimeoutSignalsRetried ==
    \A i \in DOMAIN attempts : \A n \in 1..Len(attempts[i]) :
        attempts[i][n].err \in TimeoutSignals =>
            /\ IsTimeout(attempts[i][n].err)
            /\ ~ErrorsIs(workers[i].iErr, attempts[i][n].err[1])

\* sendChunk has returned for chunk i
SendLoopReturned(i) == workers[i].pc \notin MaySend \cup {"idle"}

\* C25: a transfer starts with one usable window: whatever maxWindows is, no
\* chunk after chunk 0 is dispatched, and no token is taken for one, before
\* the send loop of chunk 0 has returned.
C25_OneWindowAtStart ==
    0 \in DOMAIN workers =>
        /\ (idx >= 2 \/ (idx = 1 /\ pc = "spawn")) => SendLoopReturned(0)
        /\ \A i \in DOMAIN workers \ {0} :
              workers[i].pc # "idle" => SendLoopReturned(0)

C25_Witness ==
    /\ capSem = MaxWindows
    /\ At(1, "send")
    /\ Len(attempts[0]) = 2
    /\ IsTimeout(attempts[0][1].err)

\* C26: a worker goes on to the compare-and-swap only if its chunk index is a
\* multiple of windowCheckFreq and currentAllowedWindows is below maxWindows
\* when it loads it; a compare-and-swap that succeeds raises
\* currentAllowedWindows by exactly 1, the worker then takes exactly one token
\* out of sem, and nothing else raises currentAllowedWindows but the freeze of
\* a back-off.
C26_GrowthStep ==
    [][\A i \in DOMAIN workers :
          /\ (workers[i].pc # "cas" /\ workers'[i].pc = "cas") =>
                /\ workers[i].pc = "grow"
                /\ i % windowCheckFreq = 0
                /\ currentAllowedWindows < capSem
                /\ workers'[i].loaded = currentAllowedWindows
          /\ (workers[i].pc # "growfree" /\ workers'[i].pc = "growfree") =>
                /\ workers[i].pc = "cas"
                /\ currentAllowedWindows' = currentAllowedWindows + 1
                /\ sem' = sem
          /\ (workers[i].pc = "growfree" /\ workers'[i].pc # "growfree") =>
                /\ workers'[i].pc = "release"
                /\ sem' = sem - 1
                /\ currentAllowedWindows' = currentAllowedWindows
          /\ currentAllowedWindows' # currentAllowedWindows =>
                \E j \in DOMAIN workers :
                    \/ workers[j].pc = "cas" /\ workers'[j].pc = "growfree"
                    \/ workers[j].pc = "store" /\ workers'[j].pc = "backoff"
      ]_vars

C26_Witness ==
    /\ capSem = MaxWindows
    /\ At(0, "release")
    /\ workers[0].loaded = 1
    /\ currentAllowedWindows = 2
    /\ sem = capSem - 1

\* C28: a timeout that a worker observes while currentWindows is at most 1
\* changes neither currentAllowedWindows nor sem, and the worker goes back to
\* the head of its loop with its tries and its fillers as they were.
C28_LoneTimeoutJustRetries ==
    [][\A i \in DOMAIN workers :
          (/\ workers[i].pc = "send"
           /\ Len(attempts'[i]) = Len(attempts[i]) + 1
           /\ IsTimeout(attempts'[i][Len(attempts'[i])].err)
           /\ currentWindows <= 1) =>
              /\ workers'[i] = [workers[i] EXCEPT !.pc = "loop", !.seq = NoFrame]
              /\ currentAllowedWindows' = currentAllowedWindows
              /\ sem' = sem
              /\ frozen' = frozen
      ]_vars

C28_Witness ==
    /\ At(0, "send")
    /\ attempts[0] = <<Timeout>>
    /\ currentWindows = 1
    /\ capSem = MaxWindows
    /\ currentAllowedWindows = 1
    /\ sem = capSem
    /\ ~frozen

\* C29: a tryUseWindow called while the context is cancelled can always
\* return, in the dispatch loop and in a back-off; when the pool is full the
\* dispatch loop's call returns false, takes no token, and the loop goes on to
\* wait, after which no goroutine is started.
C29_CancelledAcquireReturns ==
    /\ []((pc = "acquire" /\ ctxDone) => ENABLED DispatchAcquire)
    /\ [](\A i \in DOMAIN workers :
              (workers[i].pc = "backoff" /\ ctxDone) => ENABLED Backoff(i))
    /\ [][(pc = "acquire" /\ ctxDone /\ ~HasSpace(sem) /\ pc' # pc) =>
              (pc' = "wait" /\ sem' = sem /\ idx' = idx)]_vars
    /\ [][pc = "wait" =>
              /\ pc' \in {"wait", "done"}
              /\ idx' = idx
              /\ \A i \in DOMAIN workers :
                    workers[i].pc = "idle" => workers'[i].pc = "idle"]_vars

C29_Witness ==
    /\ pc = "wait"
    /\ ctxDone
    /\ idx < NumChunks
    /\ ~HasSpace(sem)
    /\ \E i \in DOMAIN workers : workers[i].pc = "idle"

\* the positions of a goroutine after its growth step
PastGrowth == {"release", "free", "done"}

\* C27: a worker whose compare-and-swap fails changes neither
\* currentAllowedWindows nor sem by it and goes on to its cleanup; once past
\* the growth step a worker never comes back to it.
C27_FailedSwapChangesNothing ==
    /\ [][\A i \in DOMAIN workers :
             (/\ workers[i].pc = "cas"
              /\ currentAllowedWindows # workers[i].loaded
              /\ workers'[i] # workers[i]) =>
                 /\ workers'[i] = [workers[i] EXCEPT !.pc = "release"]
                 /\ currentAllowedWindows' = currentAllowedWindows
                 /\ sem' = sem
         ]_vars
    /\ [][\A i \in DOMAIN workers :
             workers[i].pc \in PastGrowth => workers'[i].pc \in PastGrowth
         ]_vars

\* two workers loaded the same value and went to the compare-and-swap with
\* it: the second one's failed
C27_Witness ==
    /\ Returned
    /\ \E i, j \in DOMAIN workers :
          /\ i < j
          /\ i % windowCheckFreq = 0
          /\ j % windowCheckFreq = 0
          /\ workers[i].loaded = workers[j].loaded
          /\ workers[i].loaded < capSem
          /\ workers[i].loaded > 0

\* --------------------------------------------- a long transfer that fails
\* FailSpec is a transfer that ends with the chunk after the second
\* growth-eligible one, with a transport that refuses that chunk, the
\* growth-eligible one before it, or both, and lets nothing time out. As in LongSpec the dispatcher waits for the goroutines of
\* the other chunks to finish; once the context is cancelled its tryUseWindow
\* takes the case of ctx.Done(). Every behaviour of FailSpec is a behaviour of
\* the program.
FailChunks == {windowCheckFreq, windowCheckFreq + 1}

FailLen == windowCheckFreq + 2

FailWindows == Cardinality(Eligible(FailLen)) + 1

InitFail == Start(Image(FailLen), 1, FailWindows) /\ Fresh

FailDispatchAcquire ==
    /\ DispatchAcquire
    /\ IF ctxDone
       THEN pc' = "wait"
       ELSE \A i \in InFlight : Slow(i) /\ At(i, "send")

FailSendFails(i) == i \in FailChunks /\ SendFails(i)

FailNext ==
    \/ RunStart
    \/ FailDispatchAcquire
    \/ Spawn
    \/ WaitReturn
    \/ \E i \in DOMAIN workers : LoopHead(i)
    \/ \E i \in DOMAIN workers : FailSendFails(i)
    \/ \E i \in DOMAIN workers : SendOk(i)
    \/ \E i \in DOMAIN workers : Callback(i)
    \/ \E i \in DOMAIN workers : CheckErr(i)
    \/ \E i \in DOMAIN workers : Cancel(i)
    \/ \E i \in DOMAIN workers : WriteErr(i)
    \/ \E i \in DOMAIN workers : GrowLoad(i)
    \/ \E i \in DOMAIN workers : GrowCAS(i)
    \/ \E i \in DOMAIN workers : GrowFree(i)
    \/ \E i \in DOMAIN workers : Release(i)
    \/ \E i \in DOMAIN workers : FreeWindow(i)

FailSpec == InitFail /\ [][FailNext]_vars

\* C30: a worker whose sendChunk returned an error does not grow the budget:
\* it takes neither the compare-and-swap step nor the removal of a filler
\* token that follows it, whether it recorded its error or found one recorded.
C30_FailedWorkerNeverGrows ==
    [][\A i \in DOMAIN workers :
          (workers[i].iErr # Nil /\ workers'[i] # workers[i]) =>
              workers[i].pc \notin {"cas", "growfree"}
      ]_vars

\* the workers that are inside the callback
InCallback == {i \in DOMAIN workers : workers[i].pc = "cb"}

\* C31: the callback is never run by two workers at the same time, whatever
\* maxWindows is.
C31_CallbacksExclusive == Cardinality(InCallback) <= 1

\* C32: no worker returns the error of exhausted tries: a sendChunk that has
\* returned has returned nil after its callback, the error of its last Send
\* result, or a context error, and neither err nor the result of run is the
\* error of exhausted tries.
C32_NeverTriesExhausted ==
    /\ err # TriesExhausted
    /\ result # TriesExhausted
    /\ \A i \in DOMAIN workers :
          /\ workers[i].iErr # TriesExhausted
          /\ SendLoopReturned(i) =>
                \/ /\ workers[i].iErr = Nil
                   /\ Cardinality(CallbacksOf(i)) = 1
                \/ /\ attempts[i] # <<>>
                   /\ LET last == attempts[i][Len(attempts[i])]
                      IN  /\ Verdict(last.err, last.resp) # Nil
                          /\ ~IsTimeout(last.err)
                          /\ workers[i].iErr = Verdict(last.err, last.resp)
                \/ /\ ctxDone
                   /\ workers[i].iErr = Wrap("context error", Canceled)

\* a sendChunk left its loop after a timeout, the context cancelled
C32_Witness ==
    \E i \in DOMAIN workers :
        /\ At(i, "ret")
        /\ attempts[i] = <<Timeout>>
        /\ workers[i].iErr = Wrap("context error", Canceled)

\* C33: currentAllowedWindows is at least 1 and at most maxWindows in every
\* state, and no step lowers it, also when a growth step's compare-and-swap
\* and the store of a back-off fall together.
C33_AllowedMonotoneInRange ==
    /\ [](1 <= currentAllowedWindows /\ currentAllowedWindows <= capSem)
    /\ [][currentAllowedWindows' >= currentAllowedWindows]_vars

\* a back-off stored between the load and the compare-and-swap of a later
\* growth step, which failed
C33_Witness ==
    /\ frozen
    /\ currentAllowedWindows = capSem
    /\ \E i \in DOMAIN workers :
          /\ Slow(i)
          /\ At(i, "release")
          /\ workers[i].loaded + 1 < currentAllowedWindows

\* the tokens that the started goroutines and the dispatcher have put into sem
\* and not yet taken out
TokensHeld ==
    Cardinality(InFlight) + (IF pc = "spawn" THEN 1 ELSE 0)

\* C34: a freeWindow never blocks: whenever a goroutine is at its deferred
\* freeWindow or at the freeWindow of a successful growth step, sem holds a
\* token and the receive can be taken; sem always holds at least the tokens
\* of the goroutines that have not released theirs.
C34_ReleaseNeverBlocks ==
    /\ \A i \in DOMAIN workers :
          /\ At(i, "free") => sem > 0
          /\ At(i, "growfree") => sem > 0
    /\ sem >= TokensHeld

\* growth and a back-off have both happened and every goroutine has released
C34_Witness ==
    /\ Returned
    /\ frozen
    /\ capSem = MaxWindows
    /\ workers[0].loaded = 1
    /\ \A i \in DOMAIN workers : workers[i].pc = "done"
    /\ NumChunks = MaxLen

\* the Send calls made so far: those that have returned and those under way
SendsStarted ==
    Cardinality(UNION {{<<i, n>> : n \in 1..Len(attempts[i])} :
                          i \in DOMAIN attempts})
        + Cardinality({i \in DOMAIN workers : workers[i].pc = "send"})

\* C35: every Send attempt, a retry after a timeout included, carries a frame
\* whose sequence number NextSeqNum assigned at that attempt: the counter has
\* been advanced once per Send call, the step that starts an attempt advances
\* it and puts the returned number into the frame, and the frame keeps it
\* while it is being sent.
C35_FreshSeqEachAttempt ==
    /\ [](seqNum = [hi |-> 0, lo |-> SendsStarted])
    /\ [](\A i \in DOMAIN workers :
              workers[i].pc = "send" <=> workers[i].seq \in 0..254)
    /\ [][\A i \in DOMAIN workers :
              /\ (workers[i].pc = "loop" /\ workers'[i].pc = "send") =>
                    /\ seqNum' = Add1(seqNum)
                    /\ workers'[i].seq = SeqOf(seqNum')
              /\ (workers[i].pc = "send" /\ workers'[i].pc = "send") =>
                    workers'[i].seq = workers[i].seq
          ]_vars

\* a chunk is sent for the fourth time, with the fourth sequence number
C35_Witness ==
    /\ At(0, "send")
    /\ Len(attempts[0]) = maxTries
    /\ \A n \in 1..maxTries : attempts[0][n] = Timeout
    /\ workers[0].seq = maxTries + 1

\* ------------------------------------------------------- the sequence counter
\* SeqSpec is a process that only calls NextSeqNum.  Add is atomic, so the
\* calls of concurrent callers take effect one after the other, in the order
\* of seqLog.  The counter starts at zero, shortly before the numbers wrap at
\* 255, or shortly before the uint32 wraps.
MaxCalls == 260

SeqStarts ==
    {[hi |-> 0, lo |-> 0],
     [hi |-> 0, lo |-> 250],
     [hi |-> Half - 1, lo |-> Half - 3]}

InitSeq ==
    /\ Start(<<>>, 1, 1)
    /\ seqNum \in SeqStarts
    /\ frame = <<>>

\* NextSeqNum: return uint8(seqNum.Add(1) % 0xff)
NextSeqNum ==
    /\ Len(seqLog) < MaxCalls
    /\ seqNum' = Add1(seqNum)
    /\ seqLog' = Append(seqLog, SeqOf(seqNum'))
    /\ UNCHANGED <<Upload, frame, wire, decoded, validated>>

SeqSpec == InitSeq /\ [][NextSeqNum]_vars

\* C36: NextSeqNum returns only values in 0..254, each call returns the value
\* of the call before it plus one modulo 255, and the values of any 255
\* consecutive calls differ from each other.
C36_SeqNumbersCycle ==
    /\ \A k \in DOMAIN seqLog : seqLog[k] \in 0..254
    /\ \A k \in 1..(Len(seqLog) - 1) : seqLog[k + 1] = (seqLog[k] + 1) % 255
    /\ \A j \in 1..(Len(seqLog) - 1) :
          Len(seqLog) - j < 255 => seqLog[j] # seqLog[Len(seqLog)]

\* ------------------------------------------------------------ the frame codec
\* uint8(v << 3)
Shl3(v) == (v * 8) % 256

\* a | b on unsigned values
RECURSIVE BitOr(_, _)
BitOr(a, b) ==
    IF a = 0 THEN b
    ELSE IF b = 0 THEN a
    ELSE (IF a % 2 = 1 \/ b % 2 = 1 THEN 1 ELSE 0) + 2 * BitOr(a \div 2, b \div 2)

\* a version field read with a mask of one bit
VersionOneBit(b0) == (b0 \div 8) % 2

\* FrameToSMPFrame, line 358: (headerBytes[0] >> 3) & 0x03
VersionOf(b0) == (b0 \div 8) % 4

\* SMPFrame{}
ZeroSMPFrame ==
    [Header |-> [Version |-> 0, Op |-> 0, Flags |-> 0, DataLength |-> 0,
                 GroupID |-> 0, SequenceNum |-> 0, CommandID |-> 0],
     Data |-> <<>>]

\* SMPFrameToFrame, lines 379-398: the 8 header bytes, then the payload
SMPFrameToFrame(f) ==
    <<BitOr(Shl3(f.Header.Version), f.Header.Op),
      f.Header.Flags,
      (f.Header.DataLength \div 256) % 256,
      f.Header.DataLength % 256,
      0,
      f.Header.GroupID,
      f.Header.SequenceNum,
      f.Header.CommandID>> \o f.Data

\* FrameToSMPFrame, lines 347-376
FrameToSMPFrame(frameData) ==
    IF Len(frameData) < 8
    THEN [frame |-> ZeroSMPFrame,
          err |-> <<"frame too small, minimum 8 bytes required">>]
    ELSE LET dataBytes == SubSeq(frameData, 9, Len(frameData))
             header == [Version |-> VersionOf(frameData[1]),
                        Op |-> frameData[1] % 8,
                        Flags |-> frameData[2],
                        DataLength |-> frameData[3] * 256 + frameData[4],
                        GroupID |-> frameData[6],
                        SequenceNum |-> frameData[7],
                        CommandID |-> frameData[8]]
         IN  IF header.DataLength # Len(dataBytes)
             THEN [frame |-> ZeroSMPFrame,
                   err |-> <<"data length mismatch: header: "
                               \o ToString(header.DataLength) \o ", actual: "
                               \o ToString(Len(dataBytes))>>]
             ELSE [frame |-> [Header |-> header, Data |-> dataBytes],
                   err |-> Nil]

SMPVersionLegacy == 0
SMPVersion2 == 1

\* SMPFrame.ValidateFrame for a frame that is not nil: the length is compared
\* as uint16(len(f.Data))
ValidateFrame(f) ==
    IF f.Header.DataLength # Len(f.Data) % Half
    THEN <<"data length mismatch: header=" \o ToString(f.Header.DataLength)
              \o ", actual=" \o ToString(Len(f.Data))>>
    ELSE IF f.Header.Version # SMPVersionLegacy /\ f.Header.Version # SMPVersion2
    THEN <<"invalid version: " \o ToString(f.Header.Version)>>
    ELSE Nil

\* CodecSpec hands one frame to SMPFrameToFrame, the bytes to FrameToSMPFrame,
\* and the frame to ValidateFrame.  The frames have every version of two bits
\* and one beyond, op codes of three bits and one beyond, payloads of up to
\* MaxPayload bytes with declared lengths that match or not, a payload whose
\* length needs both length bytes, and one longer than a uint16 can say.
MaxPayload == 2
LongPayload == 258
OverlongPayload == Half + 1

Payload(n) == [k \in 1..n |-> (k * 7) % 256]

Versions == 0..4
Ops == {0, 3, 7, 8}
Bytes == {0, 129}

SMPFrame(version, op, flags, length, group, seq, command, payload) ==
    [Header |-> [Version |-> version, Op |-> op, Flags |-> flags,
                 DataLength |-> length, GroupID |-> group,
                 SequenceNum |-> seq, CommandID |-> command],
     Data |-> payload]

Frames ==
    {SMPFrame(v, op, fl, dl, g, sq, cmd, Payload(n)) :
        v \in Versions, op \in Ops, fl \in Bytes, dl \in 0..(MaxPayload + 1),
        g \in Bytes, sq \in {0, 254}, cmd \in {1}, n \in 0..MaxPayload}
    \cup
    {SMPFrame(v, 2, 0, dl, 1, 7, 1, Payload(n)) :
        v \in 0..2, dl \in {1, 2, LongPayload},
        n \in {LongPayload, OverlongPayload}}

InitCodec ==
    /\ Start(<<>>, 1, 1)
    /\ seqNum = [hi |-> 0, lo |-> 0]
    /\ frame \in Frames

Encode ==
    /\ wire = <<>>
    /\ wire' = SMPFrameToFrame(frame)
    /\ UNCHANGED <<Upload, seqNum, seqLog, frame, decoded, validated>>

Decode ==
    /\ wire # <<>>
    /\ decoded = <<>>
    /\ decoded' = <<FrameToSMPFrame(wire)>>
    /\ UNCHANGED <<Upload, seqNum, seqLog, frame, wire, validated>>

Validate ==
    /\ validated = <<>>
    /\ validated' = <<ValidateFrame(frame)>>
    /\ UNCHANGED <<Upload, seqNum, seqLog, frame, wire, decoded>>

CodecNext == Encode \/ Decode \/ Validate

CodecSpec == InitCodec /\ [][CodecNext]_vars

\* the frames of the round trip: a version of two bits, an op code of three,
\* and the declared length that of the payload
InDomain(f) ==
    /\ f.Header.Version \in 0..3
    /\ f.Header.Op \in 0..7
    /\ f.Header.DataLength = Len(f.Data)

\* C37: for a frame with Version in 0..3, Op in 0..7 and DataLength equal to
\* the payload's length, the encoded bytes are version<<3 | opcode&0x7,
\* flags, the length big-endian, 0, group, sequence number, command, then
\* the payload, and decoding them returns the frame and no error.
C37_CodecRoundTrip ==
    (frame # <<>> /\ InDomain(frame)) =>
        /\ wire # <<>> =>
              /\ Len(wire) = 8 + Len(frame.Data)
              /\ \A k \in 1..8 : wire[k] \in 0..255
              /\ wire[1] = (frame.Header.Version * 8) + (frame.Header.Op % 8)
              /\ wire[2] = frame.Header.Flags
              /\ wire[3] * 256 + wire[4] = frame.Header.DataLength
              /\ wire[5] = 0
              /\ wire[6] = frame.Header.GroupID
              /\ wire[7] = frame.Header.SequenceNum
              /\ wire[8] = frame.Header.CommandID
              /\ SubSeq(wire, 9, Len(wire)) = frame.Data
        /\ decoded # <<>> => decoded[1] = [frame |-> frame, err |-> Nil]

\* a frame of version 3 and op code 7 whose length needs both length bytes
\* has made the round trip
C37_Witness ==
    /\ frame # <<>>
    /\ decoded # <<>>
    /\ InDomain(frame)
    /\ frame.Header.Version = 2
    /\ Len(frame.Data) = LongPayload
    /\ wire[3] = 1

\* C38: ValidateFrame returns an error exactly when the header's DataLength
\* differs from the length of the payload or the Version is neither 0 nor 1.
C38_ValidateExactly ==
    (frame # <<>> /\ validated # <<>>) =>
        (validated[1] # Nil <=>
            \/ frame.Header.DataLength # Len(frame.Data)
            \/ frame.Header.Version \notin {0, 1})

\* C39: in an upload the request of every chunk carries the chunk's offset
\* and its slice of the image; the request at offset 0 also carries the
\* total length and the hash of the image (image index 0, upgrade false, as
\* sendChunk passes them), and in every request at another offset image
\* index, total length, hash and upgrade flag are zero or empty.  The
\* requests handed to the callback are these requests.
C39_ImageFieldsOnlyAtOffsetZero ==
    /\ \A i \in Chunks :
          LET off == OffsetOf(i)
              req == Request(off)
          IN  /\ req.Off = off
              /\ req.Data = [k \in 1..(Min(off + chunkSize, Len(data)) - off) |->
                                data[off + k]]
              /\ req.Image = 0
              /\ req.Upgrade = FALSE
              /\ off = 0 => (req.Len = Len(data) /\ req.SHA = Sum256(data))
              /\ off # 0 => (req.Len = 0 /\ req.SHA = <<>>)
    /\ \A k \in 1..Len(cbLog) :
          \E i \in Chunks : cbLog[k] = Request(OffsetOf(i))

\* the callback has had the first request, with the image's length and hash,
\* and a later one
C39_Witness ==
    /\ Len(cbLog) >= 2
    /\ cbLog[1].Off = 0
    /\ cbLog[1].Len = Len(data)
    /\ Len(data) > 0
    /\ cbLog[1].SHA # <<>>
    /\ cbLog[2].Off # 0
    /\ cbLog[2].Len = 0

====
